---- MODULE Spec2Model ----
(***************************************************************************)
(* Energy-price forecasting pipeline: CSV loaders, degree-day transform,   *)
(* forward-fill alignment, model adapters with their degraded modes, the   *)
(* sentiment scorer and the orchestrator run_pipeline.                     *)
(*                                                                         *)
(* Python objects are records.  A float is Float(x) or NaN; a str read     *)
(* from a CSV cell keeps its text kind (numeric text or malformed text).   *)
(* Timestamps are integers.  The estimation backends (statsmodels, arch,   *)
(* transformers) are black boxes: present or absent, and when present a    *)
(* call either yields an opaque fitted result or raises.                   *)
(***************************************************************************)
EXTENDS Integers, Sequences, FiniteSets, TLC

VARIABLES
    pc,               \* position of the call in progress
    libs,             \* which optional packages import successfully
    price_path,       \* content of the file at price_path
    weather_path,     \* content of the file at weather_path
    sentiment_path,   \* content of the file at sentiment_path, or None
    forecast_steps,   \* requested horizon
    price_df,         \* run_pipeline local
    weather_df,       \* run_pipeline local
    degree_days,      \* run_pipeline local
    sentiment,        \* run_pipeline local
    exog,             \* run_pipeline local / adapter argument
    series,           \* adapter argument
    arimax_forecast,  \* run_pipeline local
    result_garch,     \* run_pipeline local
    vecm_res,         \* run_pipeline local
    calls,            \* adapter and backend invocations, in order
    temperature,      \* compute_degree_days argument
    base_temperature, \* compute_degree_days argument
    texts,            \* compute_finbert_sentiment argument (an iterable)
    scores,           \* compute_finbert_sentiment local
    classified,       \* what the classifier answered, per document
    ret               \* value returned (or exception raised) by the call

vars == <<pc, libs, price_path, weather_path, sentiment_path, forecast_steps,
          price_df, weather_df, degree_days, sentiment, exog, series,
          arimax_forecast, result_garch, vecm_res, calls, temperature,
          base_temperature, texts, scores, classified, ret>>

---------------------------------------------------------------------------
(* Bounds of the model.                                                    *)

MaxRows == 2

MaxTime == 3

MaxSteps == 2

MaxDocs == 2

---------------------------------------------------------------------------
(* Python values.                                                          *)

None == [none |-> TRUE]

Raise(e) == [exc |-> e]

IsRaise(x) == DOMAIN x = {"exc"}

NaN == [tag |-> "nan", v |-> 0]

Float(x) == [tag |-> "float", v |-> x]

IsNaN(x) == x.tag = "nan"

IsFloat(x) == x.tag = "float"

\* a float64 cell: a number or the missing-value marker
IsNumeric(x) == x.tag \in {"float", "nan"}

Range(s) == {s[i] : i \in DOMAIN s}

\* [x] * n  (a negative n gives the empty list)
ListRepeat(x, n) == [i \in 1..n |-> x]

\* a DatetimeIndex; freq = 0 stands for freq=None (what read_csv leaves)
DatetimeIndex(labels, freq) ==
    [kind |-> "datetime", labels |-> labels, freq |-> freq]

\* the default index of a freshly built Series / DataFrame
RangeIndex(n) ==
    [kind |-> "range", labels |-> [i \in 1..n |-> i - 1], freq |-> 0]

IsSeries(x) == "values" \in DOMAIN x

IsDataFrame(x) == "columns" \in DOMAIN x

Series(index, values) == [index |-> index, values |-> values]

DataFrame(index, columns, data) ==
    [index |-> index, columns |-> columns, data |-> data]

\* position of a column label (0 when absent)
ColPos(df, name) ==
    IF \E c \in DOMAIN df.columns : df.columns[c] = name
    THEN CHOOSE c \in DOMAIN df.columns : df.columns[c] = name
    ELSE 0

---------------------------------------------------------------------------
(* CSV files and pandas.read_csv(path, parse_dates=True, index_col=0).     *)

EmptyCell == [tag |-> "empty", v |-> 0]

BadText == [tag |-> "badtext", v |-> 0]

NumText(x) == [tag |-> "numtext", v |-> x]

\* read_csv infers one dtype per column: float64 if every non-empty cell
\* parses as a number, otherwise object with the cells kept as str.
ReadCsvColumn(cells) ==
    IF \E i \in DOMAIN cells : cells[i].tag = "badtext"
    THEN [i \in DOMAIN cells |->
            IF cells[i].tag = "empty" THEN NaN ELSE cells[i]]
    ELSE [i \in DOMAIN cells |->
            IF cells[i].tag = "empty" THEN NaN ELSE Float(cells[i].v)]

read_csv(file) ==
    DataFrame(
        DatetimeIndex([i \in DOMAIN file.rows |-> file.rows[i].ts], 0),
        file.header,
        [c \in DOMAIN file.header |->
            ReadCsvColumn([i \in DOMAIN file.rows |-> file.rows[i].cells[c]])])

\* pd.to_numeric(column, errors="coerce")
to_numeric_coerce(col) ==
    [i \in DOMAIN col |->
        CASE col[i].tag = "numtext" -> Float(col[i].v)
          [] col[i].tag = "badtext" -> NaN
          [] OTHER -> col[i]]

\* column.astype(float): raises ValueError on text that is not a number
astype_float(col) ==
    IF \E i \in DOMAIN col : col[i].tag = "badtext"
    THEN Raise("ValueError")
    ELSE [values |-> [i \in DOMAIN col |->
            IF col[i].tag = "numtext" THEN Float(col[i].v) ELSE col[i]]]

---------------------------------------------------------------------------
(* data_ingestion: the three loaders.                                      *)

load_price_data(file) ==
    LET df == read_csv(file)
    IN  DataFrame(df.index, df.columns,
                  [c \in DOMAIN df.columns |-> to_numeric_coerce(df.data[c])])

load_weather_data(file) ==
    LET df == read_csv(file)
        t  == ColPos(df, "temperature")
    IN  IF t = 0
        THEN Raise("KeyError")
        ELSE DataFrame(df.index, df.columns,
                [c \in DOMAIN df.columns |->
                    IF c = t THEN to_numeric_coerce(df.data[c]) ELSE df.data[c]])

load_sentiment_scores(file) ==
    LET df == read_csv(file)
    IN  IF Len(df.columns) = 0
        THEN Raise("IndexError")
        ELSE LET col == astype_float(df.data[1])
             IN  IF IsRaise(col) THEN col ELSE Series(df.index, col.values)

---------------------------------------------------------------------------
(* Input files.                                                            *)

Times == 1..MaxTime

RawCells == {NumText(20), EmptyCell, BadText}

Headers == {<<"temperature">>, <<"x">>, <<"temperature", "x">>}

RowsOf(n, cellset) ==
    UNION {[1..k -> [ts : Times, cells : [1..n -> cellset]]] : k \in 0..MaxRows}

Files(headers, cellset) ==
    UNION {[header : {h}, rows : RowsOf(Len(h), cellset)] : h \in headers}

---------------------------------------------------------------------------
(* Loader calls on an arbitrary readable file.                             *)

idleLoad == <<libs, price_path, weather_path, sentiment_path,
              forecast_steps, price_df,
              weather_df, degree_days, sentiment, exog, series,
              arimax_forecast, result_garch, vecm_res, calls, temperature,
              base_temperature, texts, scores, classified>>

InitLoad ==
    /\ pc = "call"
    /\ price_path \in Files(Headers, RawCells)
    /\ weather_path = price_path /\ sentiment_path = price_path
    /\ libs = None
    /\ forecast_steps = 0
    /\ price_df = None /\ weather_df = None /\ degree_days = None
    /\ sentiment = None /\ exog = None /\ series = None
    /\ arimax_forecast = None /\ result_garch = None /\ vecm_res = None
    /\ calls = <<>> /\ temperature = None /\ base_temperature = 0
    /\ texts = None /\ scores = <<>> /\ classified = <<>>
    /\ ret = None

CallLoadPriceData ==
    /\ pc = "call"
    /\ pc' = "load_price_data"
    /\ ret' = load_price_data(price_path)
    /\ UNCHANGED idleLoad

CallLoadWeatherData ==
    /\ pc = "call"
    /\ pc' = "load_weather_data"
    /\ ret' = load_weather_data(weather_path)
    /\ UNCHANGED idleLoad

CallLoadSentimentScores ==
    /\ pc = "call"
    /\ pc' = "load_sentiment_scores"
    /\ ret' = load_sentiment_scores(sentiment_path)
    /\ UNCHANGED idleLoad

NextLoad ==
    \/ CallLoadPriceData
    \/ CallLoadWeatherData
    \/ CallLoadSentimentScores

SpecLoad == InitLoad /\ [][NextLoad]_vars

(* C4: every value column of a loaded table is numeric, a malformed cell   *)
(* becomes the missing-value marker, and no loader raises because of a     *)
(* malformed cell (ValueError is the only exception a cell can cause;      *)
(* KeyError and IndexError come from the file's structure).                *)
Loaders == {"load_price_data", "load_weather_data", "load_sentiment_scores"}

ReturnedValues(r) ==
    IF "values" \in DOMAIN r
    THEN Range(r.values)
    ELSE UNION {Range(r.data[c]) : c \in DOMAIN r.data}

C4_MalformedCellsBecomeMissing ==
    pc \in Loaders =>
        /\ ret # Raise("ValueError")
        /\ ~IsRaise(ret) => \A x \in ReturnedValues(ret) : IsNumeric(x)

(* C10: the index of every table a loader returns is strictly increasing.  *)
IsStrictlyIncreasing(s) ==
    \A i \in DOMAIN s : \A j \in DOMAIN s : i < j => s[i] < s[j]

C10_LoadedIndexStrictlyIncreasing ==
    (pc \in Loaders /\ ~IsRaise(ret)) => IsStrictlyIncreasing(ret.index.labels)

---------------------------------------------------------------------------
(* data_ingestion.compute_degree_days.                                     *)

DefaultBaseTemperature == 18

\* a - b on floats; NaN propagates
FSub(a, b) == IF IsNaN(a) \/ IsNaN(b) THEN NaN ELSE Float(a.v - b.v)

\* np.maximum(0, x); NaN propagates
Maximum0(x) == IF IsNaN(x) THEN NaN ELSE IF x.v > 0 THEN x ELSE Float(0)

\* the sign slip: both columns measure the excess over the base
compute_degree_days_same_sign(temp_series, base) ==
    LET temp == astype_float(temp_series.values)
    IN  IF IsRaise(temp) THEN temp
        ELSE DataFrame(temp_series.index, <<"HDD", "CDD">>,
                <<[i \in DOMAIN temp.values |->
                        Maximum0(FSub(temp.values[i], Float(base)))],
                  [i \in DOMAIN temp.values |->
                        Maximum0(FSub(temp.values[i], Float(base)))]>>)

compute_degree_days(temp_series, base) ==
    LET temp == astype_float(temp_series.values)
    IN  IF IsRaise(temp) THEN temp
        ELSE DataFrame(temp_series.index, <<"HDD", "CDD">>,
                <<[i \in DOMAIN temp.values |->
                        Maximum0(FSub(Float(base), temp.values[i]))],
                  [i \in DOMAIN temp.values |->
                        Maximum0(FSub(temp.values[i], Float(base)))]>>)

Temperatures == {Float(16), Float(18), Float(20), NaN}

BaseTemperatures == {16, 18, 19}

TemperatureSeries ==
    UNION {{Series(DatetimeIndex(ix, 0), vs) :
                ix \in [1..k -> Times], vs \in [1..k -> Temperatures]} :
           k \in 0..MaxRows}

idleDegree == <<libs, price_path, weather_path, sentiment_path,
                forecast_steps, price_df, weather_df, degree_days, sentiment,
                exog, series, arimax_forecast, result_garch, vecm_res, calls,
                texts, scores, classified>>

InitDegree ==
    /\ pc = "call"
    /\ temperature \in TemperatureSeries
    /\ base_temperature \in BaseTemperatures
    /\ libs = None /\ price_path = None /\ weather_path = None
    /\ sentiment_path = None /\ forecast_steps = 0
    /\ price_df = None /\ weather_df = None /\ degree_days = None
    /\ sentiment = None /\ exog = None /\ series = None
    /\ arimax_forecast = None /\ result_garch = None /\ vecm_res = None
    /\ calls = <<>> /\ texts = None /\ scores = <<>> /\ classified = <<>>
    /\ ret = None

\* compute_degree_days(temperature, base_temperature)
CallComputeDegreeDays ==
    /\ pc = "call"
    /\ pc' = "compute_degree_days"
    /\ ret' = compute_degree_days(temperature, base_temperature)
    /\ UNCHANGED <<temperature, base_temperature, idleDegree>>

\* compute_degree_days(temperature): the base takes its default
CallComputeDegreeDaysDefault ==
    /\ pc = "call"
    /\ pc' = "compute_degree_days"
    /\ base_temperature' = DefaultBaseTemperature
    /\ ret' = compute_degree_days(temperature, DefaultBaseTemperature)
    /\ UNCHANGED <<temperature, idleDegree>>

NextDegree ==
    \/ CallComputeDegreeDays
    \/ CallComputeDegreeDaysDefault

SpecDegree == InitDegree /\ [][NextDegree]_vars

(* C3: for every observed temperature t and base b (18 when not given),    *)
(* HDD = max(0, b - t) and CDD = max(0, t - b): both are >= 0, HDD + (t-b) *)
(* = CDD when t >= b, exactly one of them is nonzero when t # b, both are  *)
(* zero when t = b; the output has one HDD/CDD row per observation, on the *)
(* index of the input.                                                     *)
Max(a, b) == IF a >= b THEN a ELSE b

DegreeDayRowOk(t, b, hdd, cdd) ==
    /\ IsFloat(hdd) /\ IsFloat(cdd)
    /\ hdd.v = Max(0, b - t) /\ cdd.v = Max(0, t - b)
    /\ hdd.v >= 0 /\ cdd.v >= 0
    /\ t >= b => hdd.v + (t - b) = cdd.v
    /\ t # b => ((hdd.v # 0) # (cdd.v # 0))
    /\ t = b => (hdd.v = 0 /\ cdd.v = 0)

C3_DegreeDays ==
    pc = "compute_degree_days" =>
        /\ ~IsRaise(ret)
        /\ ret.index = temperature.index
        /\ ret.columns = <<"HDD", "CDD">>
        /\ \A c \in 1..2 : Len(ret.data[c]) = Len(temperature.values)
        /\ \A i \in DOMAIN temperature.values :
              IsFloat(temperature.values[i]) =>
                  DegreeDayRowOk(temperature.values[i].v, base_temperature,
                                 ret.data[1][i], ret.data[2][i])

C3_Witness ==
    /\ pc = "compute_degree_days"
    /\ base_temperature = DefaultBaseTemperature
    /\ \E i \in DOMAIN temperature.values :
          \E j \in DOMAIN temperature.values :
              /\ temperature.values[i] = Float(20)
              /\ ret.data[1][i] = Float(0) /\ ret.data[2][i] = Float(2)
              /\ temperature.values[j] = Float(16)
              /\ ret.data[1][j] = Float(2) /\ ret.data[2][j] = Float(0)

---------------------------------------------------------------------------
(* Optional backends.  Each module binds its names in a try/except         *)
(* ImportError at import time; a failed import leaves them None.           *)

LibSets == [statsmodels : BOOLEAN, arch : BOOLEAN, transformers : BOOLEAN]

\* arimax.py: ARIMA
arimax_ARIMA_is_None == ~libs.statsmodels

\* arimax_garch.py: ARIMA and arch_model share one try block, so either
\* failed import sets both to None
arimax_garch_ARIMA_is_None == ~(libs.statsmodels /\ libs.arch)

arimax_garch_arch_model_is_None == ~(libs.statsmodels /\ libs.arch)

\* vecm_garch.py: VECM
VECM_is_None == ~libs.statsmodels

\* a backend call that is made either returns or raises
Outcomes == {"ok", "raise"}

\* a number computed by a backend
Fitted == [tag |-> "fitted", v |-> 0]

\* pd.Series([float('nan')] * forecast_steps)
nan_series(steps) ==
    Series(RangeIndex(Len(ListRepeat(NaN, steps))), ListRepeat(NaN, steps))

\* df.iloc[-k:] (k = 0 makes the slice [0:], the whole table)
iloc_tail(df, k) ==
    LET n     == Len(df.index.labels)
        first == IF k <= 0 \/ k >= n THEN 1 ELSE n - k + 1
        keep  == n - first + 1
    IN  DataFrame(
            [kind   |-> df.index.kind,
             labels |-> [i \in 1..keep |-> df.index.labels[first + i - 1]],
             freq   |-> df.index.freq],
            df.columns,
            [c \in DOMAIN df.columns |->
                [i \in 1..keep |-> df.data[c][first + i - 1]]])

\* the exog argument of get_forecast
future_exog(exog_, steps) ==
    IF exog_ = None THEN None ELSE iloc_tail(exog_, steps)

\* result of an adapter: the value it returns (or raises) and the backend
\* calls it made
Result(out, backend) == [out |-> out, backend |-> backend]

---------------------------------------------------------------------------
(* arimax.fit_arimax                                                       *)

fit_arimax(series_, exog_, steps, outcome) ==
    IF arimax_ARIMA_is_None
    THEN Result(nan_series(steps), <<>>)
    ELSE IF outcome = "raise"
    THEN Result(Raise("BackendError"),
                <<[fn |-> "ARIMA.fit", exog |-> exog_]>>)
    ELSE Result([predicted_mean |-> "ARIMA", steps |-> steps],
                <<[fn |-> "ARIMA.fit", exog |-> exog_],
                  [fn |-> "get_forecast", steps |-> steps,
                   exog |-> future_exog(exog_, steps)]>>)

---------------------------------------------------------------------------
(* arimax_garch.fit_arimax_garch                                           *)

ArimaxGarchResult(mean_model, vol_model, forecast_mean, forecast_vol) ==
    [mean_model |-> mean_model, vol_model |-> vol_model,
     forecast_mean |-> forecast_mean, forecast_vol |-> forecast_vol]

\* what the docstring announces: "forecasts will be empty"
fit_arimax_garch_empty(series_, exog_, steps, outcome) ==
    IF arimax_garch_ARIMA_is_None \/ arimax_garch_arch_model_is_None
    THEN Result(ArimaxGarchResult(None, None, nan_series(0), nan_series(0)),
                <<>>)
    ELSE Result(Raise("BackendError"),
                <<[fn |-> "ARIMA.fit", exog |-> exog_]>>)

fit_arimax_garch(series_, exog_, steps, outcome) ==
    IF arimax_garch_ARIMA_is_None \/ arimax_garch_arch_model_is_None
    THEN Result(ArimaxGarchResult(None, None, nan_series(steps),
                                  nan_series(steps)),
                <<>>)
    ELSE IF outcome = "raise"
    THEN Result(Raise("BackendError"),
                <<[fn |-> "ARIMA.fit", exog |-> exog_]>>)
    ELSE Result(ArimaxGarchResult(
                    [model |-> "ARIMAResults"], [model |-> "ARCHModelResult"],
                    [predicted_mean |-> "ARIMA", steps |-> steps],
                    [variance |-> "GARCH", steps |-> steps]),
                <<[fn |-> "ARIMA.fit", exog |-> exog_],
                  [fn |-> "arch_model.fit"],
                  [fn |-> "get_forecast", steps |-> steps,
                   exog |-> future_exog(exog_, steps)],
                  [fn |-> "garch_fit.forecast", steps |-> steps]>>)

---------------------------------------------------------------------------
(* vecm_garch.fit_vecm_garch                                               *)

VecmGarchResult(vecm_model, forecast) ==
    [vecm_model |-> vecm_model, forecast |-> forecast]

\* pd.date_range with freq=None and no end falls back to freq="D":
\* one day, in the model's time unit (hours)
Day == 24

\* pd.date_range(start=index[-1], periods=steps + 1, freq=index.freq)[1:]
forecast_index(index, steps) ==
    IF Len(index.labels) = 0
    THEN Raise("IndexError")
    ELSE LET step == IF index.freq = 0 THEN Day ELSE index.freq
             last == index.labels[Len(index.labels)]
         IN  DatetimeIndex([k \in 1..steps |-> last + k * step], step)

\* pd.DataFrame({col: [nan] * steps for col in columns}, columns=columns):
\* the rows are those of the column lists, so a table with no column has
\* no row
nan_frame(columns, steps) ==
    DataFrame(
        RangeIndex(IF Len(columns) = 0 THEN 0
                   ELSE Len(ListRepeat(NaN, steps))),
        columns,
        [c \in DOMAIN columns |-> ListRepeat(NaN, steps)])

fit_vecm_garch(series_, steps, outcome) ==
    IF VECM_is_None
    THEN Result(VecmGarchResult(None, nan_frame(series_.columns, steps)),
                <<>>)
    ELSE IF outcome = "raise"
    THEN Result(Raise("BackendError"), <<[fn |-> "VECM.fit"]>>)
    ELSE LET ix == forecast_index(series_.index, steps)
         IN  IF IsRaise(ix)
             THEN Result(ix, <<[fn |-> "VECM.fit"],
                               [fn |-> "predict", steps |-> steps]>>)
             ELSE Result(
                    VecmGarchResult(
                        [model |-> "VECMResults"],
                        DataFrame(ix, series_.columns,
                            [c \in DOMAIN series_.columns |->
                                ListRepeat(Fitted, steps)])),
                    <<[fn |-> "VECM.fit"],
                      [fn |-> "predict", steps |-> steps]>>)

---------------------------------------------------------------------------
(* Adapter calls on arbitrary arguments.                                   *)

Horizons == 0..MaxSteps

\* any order of rows with freq=None, or a regular index that carries its
\* frequency (one time unit)
Indexes ==
    UNION {{DatetimeIndex(ix, 0) : ix \in [1..k -> Times]} : k \in 0..MaxRows}
    \cup {DatetimeIndex([i \in 1..k |-> t + i - 1], 1) :
            t \in Times, k \in 1..MaxRows}

ConstFrame(index, columns, x) ==
    DataFrame(index, columns,
              [c \in DOMAIN columns |-> [i \in DOMAIN index.labels |-> x]])

PriceColumns == {<<"da">>, <<"da", "rt">>}

SeriesArgs ==
    {Series(ix, [i \in DOMAIN ix.labels |-> Float(50)]) : ix \in Indexes}
    \cup {ConstFrame(ix, cs, Float(50)) : ix \in Indexes, cs \in PriceColumns}

ExogArgs(index) == {None, ConstFrame(index, <<"HDD", "CDD">>, Float(0))}

idleAdapter == <<libs, price_path, weather_path, sentiment_path,
                 forecast_steps, price_df, weather_df, degree_days, sentiment,
                 exog, series, arimax_forecast, result_garch, vecm_res,
                 temperature, base_temperature, texts, scores, classified>>

InitAdapter ==
    /\ pc = "call"
    /\ libs \in LibSets
    /\ series \in SeriesArgs
    /\ exog \in ExogArgs(series.index)
    /\ forecast_steps \in Horizons
    /\ price_path = None /\ weather_path = None /\ sentiment_path = None
    /\ price_df = None /\ weather_df = None /\ degree_days = None
    /\ sentiment = None
    /\ arimax_forecast = None /\ result_garch = None /\ vecm_res = None
    /\ calls = <<>> /\ temperature = None /\ base_temperature = 0
    /\ texts = None /\ scores = <<>> /\ classified = <<>>
    /\ ret = None

CallFitArimax ==
    /\ pc = "call"
    /\ IsSeries(series)
    /\ \E outcome \in Outcomes :
          LET r == fit_arimax(series, exog, forecast_steps, outcome)
          IN  ret' = r.out /\ calls' = calls \o r.backend
    /\ pc' = "fit_arimax"
    /\ UNCHANGED idleAdapter

CallFitArimaxGarch ==
    /\ pc = "call"
    /\ IsSeries(series)
    /\ \E outcome \in Outcomes :
          LET r == fit_arimax_garch(series, exog, forecast_steps, outcome)
          IN  ret' = r.out /\ calls' = calls \o r.backend
    /\ pc' = "fit_arimax_garch"
    /\ UNCHANGED idleAdapter

CallFitVecmGarch ==
    /\ pc = "call"
    /\ IsDataFrame(series)
    /\ \E outcome \in Outcomes :
          LET r == fit_vecm_garch(series, forecast_steps, outcome)
          IN  ret' = r.out /\ calls' = calls \o r.backend
    /\ pc' = "fit_vecm_garch"
    /\ UNCHANGED idleAdapter

NextAdapter ==
    \/ CallFitArimax
    \/ CallFitArimaxGarch
    \/ CallFitVecmGarch

SpecAdapter == InitAdapter /\ [][NextAdapter]_vars

(* C1: with a required backend missing, fit_arimax returns exactly         *)
(* forecast_steps values, all the missing-value marker, and                *)
(* fit_arimax_garch returns a bundle with both model handles absent and    *)
(* mean and volatility forecasts of exactly forecast_steps missing-value   *)
(* markers each; neither raises.                                           *)
AllMissing(s, n) ==
    /\ IsSeries(s)
    /\ Len(s.values) = n
    /\ Len(s.index.labels) = n
    /\ \A i \in DOMAIN s.values : IsNaN(s.values[i])

C2_DegradedVecmShapeAndIndex ==
    (pc = "fit_vecm_garch" /\ ~libs.statsmodels) =>
        /\ ~IsRaise(ret)
        /\ ret.forecast.columns = series.columns
        /\ Len(ret.forecast.index.labels) = forecast_steps
        /\ \A c \in DOMAIN series.columns :
              /\ Len(ret.forecast.data[c]) = forecast_steps
              /\ \A i \in 1..forecast_steps : IsNaN(ret.forecast.data[c][i])
        /\ (forecast_steps > 0 /\ Len(series.index.labels) > 0) =>
              ret.forecast.index.labels =
                  forecast_index(series.index, forecast_steps).labels

---------------------------------------------------------------------------
(* sentiment_integration.compute_finbert_sentiment                         *)

\* sentiment_integration.py: pipeline
pipeline_is_None == ~libs.transformers

\* an iterable of documents: a list can be traversed again, a generator
\* yields each item once (pos items are already consumed)
Iterable(kind, items) == [kind |-> kind, items |-> items, pos |-> 0]

\* the iterable after one step of its traversal
Advance(it) ==
    IF it.kind = "generator" /\ it.pos < Len(it.items)
    THEN [it EXCEPT !.pos = @ + 1]
    ELSE it

\* list(texts): the items not yet consumed; a generator is left exhausted
list_of(it) ==
    [i \in 1..(Len(it.items) - it.pos) |-> it.items[it.pos + i]]

Exhaust(it) ==
    IF it.kind = "generator" THEN [it EXCEPT !.pos = Len(it.items)] ELSE it

\* len(texts) taken on the iterable itself: a generator has no len()
degraded_scores_len(it) ==
    IF it.kind = "generator"
    THEN Raise("TypeError")
    ELSE Series(RangeIndex(Len(it.items)),
                ListRepeat(Float(0), Len(it.items)))

\* pd.Series([0.0] * len(list(texts)))
degraded_scores(it) ==
    Series(RangeIndex(Len(list_of(it))), ListRepeat(Float(0), Len(list_of(it))))

\* str.lower() on the labels a classifier may answer
lower(label) ==
    CASE label = "Positive" -> "positive"
      [] label = "NEGATIVE" -> "negative"
      [] OTHER -> label

\* the sign is lost: every non-neutral label scores +confidence
label_score_unsigned(label, score) ==
    IF lower(label) \in {"positive", "negative"} THEN Float(score)
    ELSE Float(0)

\* the if / elif / else on the lowered label
label_score(label, score) ==
    IF lower(label) = "positive" THEN Float(score)
    ELSE IF lower(label) = "negative" THEN Float(0 - score)
    ELSE Float(0)

Docs == {"rally", "slump"}

Labels == {"positive", "negative", "neutral", "Positive", "NEGATIVE"}

\* classifier confidence, in hundredths
Confidences == {0, 70, 100}

TextArgs ==
    UNION {{Iterable(kind, items) :
                kind \in {"list", "generator"}, items \in [1..k -> Docs]} :
           k \in 0..MaxDocs}

idleSentiment == <<libs, price_path, weather_path, sentiment_path,
                   forecast_steps, price_df, weather_df, degree_days,
                   sentiment, exog, series, arimax_forecast, result_garch,
                   vecm_res, calls, temperature, base_temperature>>

InitSentiment ==
    /\ pc = "call"
    /\ libs \in LibSets
    /\ texts \in TextArgs
    /\ scores = <<>> /\ classified = <<>>
    /\ price_path = None /\ weather_path = None /\ sentiment_path = None
    /\ forecast_steps = 0
    /\ price_df = None /\ weather_df = None /\ degree_days = None
    /\ sentiment = None /\ exog = None /\ series = None
    /\ arimax_forecast = None /\ result_garch = None /\ vecm_res = None
    /\ calls = <<>> /\ temperature = None /\ base_temperature = 0
    /\ ret = None

\* if pipeline is None: return zeros
SentimentDegraded ==
    /\ pc = "call"
    /\ pipeline_is_None
    /\ ret' = degraded_scores(texts)
    /\ texts' = IF IsRaise(ret') THEN texts ELSE Exhaust(texts)
    /\ pc' = "compute_finbert_sentiment"
    /\ UNCHANGED <<scores, classified, idleSentiment>>

\* sentiment_pipeline = pipeline("sentiment-analysis", model=...)
SentimentLoadPipeline ==
    /\ pc = "call"
    /\ ~pipeline_is_None
    /\ \E outcome \in Outcomes :
          IF outcome = "ok"
          THEN pc' = "for text in texts" /\ ret' = ret
          ELSE pc' = "compute_finbert_sentiment"
               /\ ret' = Raise("BackendError")
    /\ UNCHANGED <<texts, scores, classified, idleSentiment>>

\* one iteration of the loop: classify the next document, map its label
\* (the loop has taken Len(scores) documents so far)
SentimentClassify ==
    /\ pc = "for text in texts"
    /\ Len(scores) < Len(texts.items)
    /\ \E label \in Labels, score \in Confidences :
          /\ classified' = Append(classified,
                [text  |-> texts.items[Len(scores) + 1],
                 label |-> label, score |-> score])
          /\ scores' = Append(scores, label_score(label, score))
    /\ texts' = Advance(texts)
    /\ UNCHANGED <<pc, ret, idleSentiment>>

\* the loop is over: return pd.Series(scores)
SentimentReturn ==
    /\ pc = "for text in texts"
    /\ Len(scores) >= Len(texts.items)
    /\ ret' = Series(RangeIndex(Len(scores)), scores)
    /\ pc' = "compute_finbert_sentiment"
    /\ UNCHANGED <<texts, scores, classified, idleSentiment>>

NextSentiment ==
    \/ SentimentDegraded
    \/ SentimentLoadPipeline
    \/ SentimentClassify
    \/ SentimentReturn

SpecSentiment == InitSentiment /\ [][NextSentiment]_vars

C6_SentimentDegraded ==
    (pc = "compute_finbert_sentiment" /\ ~libs.transformers) =>
        /\ IsSeries(ret)
        /\ Len(ret.values) = Len(texts.items)
        /\ Len(ret.index.labels) = Len(texts.items)
        /\ \A i \in DOMAIN ret.values : ret.values[i] = Float(0)

C6_Witness ==
    /\ pc = "compute_finbert_sentiment"
    /\ ~libs.transformers
    /\ texts.kind = "generator"
    /\ Len(texts.items) = MaxDocs
    /\ IsSeries(ret)
    /\ Len(ret.values) = MaxDocs

---------------------------------------------------------------------------
(* pandas reindex(index, method="ffill"), as run_pipeline uses it.         *)

IsUnique(s) == \A i \in DOMAIN s : \A j \in DOMAIN s : s[i] = s[j] => i = j

IsMonotonicIncreasing(s) ==
    \A i \in DOMAIN s : \A j \in DOMAIN s : i < j => s[i] <= s[j]

IsMonotonicDecreasing(s) ==
    \A i \in DOMAIN s : \A j \in DOMAIN s : i < j => s[i] >= s[j]

\* Index.get_indexer(target, method="pad") for one target label: the
\* position in src to take, 0 for "not found".  An exact match wins;
\* otherwise the position before the insertion point, in the ORDER OF THE
\* INDEX: on an increasing index that is the last label <= t, on a
\* decreasing one it is the last position whose label is > t.
pad_position(src, t) ==
    IF \E j \in DOMAIN src : src[j] = t
    THEN CHOOSE j \in DOMAIN src : src[j] = t
    ELSE IF IsMonotonicIncreasing(src)
    THEN Cardinality({j \in DOMAIN src : src[j] <= t})
    ELSE Cardinality({j \in DOMAIN src : src[j] > t})

\* the columns of a Series (one) or DataFrame, as a sequence of columns
ColumnsOf(x) == IF IsSeries(x) THEN <<x.values>> ELSE x.data

WithColumns(x, index, cols) ==
    IF IsSeries(x) THEN Series(index, cols[1])
    ELSE DataFrame(index, x.columns, cols)

take(src, target, cols) ==
    [c \in DOMAIN cols |->
        [i \in DOMAIN target |->
            IF pad_position(src, target[i]) = 0 THEN NaN
            ELSE cols[c][pad_position(src, target[i])]]]

\* without the shortcut for an index that already equals the target
reindex_ffill_always_indexes(x, index) ==
    LET src == x.index.labels
    IN  IF ~IsUnique(src)
        THEN Raise("ValueError")
        ELSE IF ~(IsMonotonicIncreasing(src) \/ IsMonotonicDecreasing(src))
        THEN Raise("ValueError")
        ELSE WithColumns(x, index, take(src, index.labels, ColumnsOf(x)))

\* x.reindex(index, method="ffill"): a copy when the index already equals
\* the target; ValueError on duplicate labels or on an index that is not
\* monotonic; otherwise one row per target label, taken by pad_position
reindex_ffill(x, index) ==
    LET src == x.index.labels
    IN  IF src = index.labels
        THEN WithColumns(x, index, ColumnsOf(x))
        ELSE IF ~IsUnique(src)
        THEN Raise("ValueError")
        ELSE IF ~(IsMonotonicIncreasing(src) \/ IsMonotonicDecreasing(src))
        THEN Raise("ValueError")
        ELSE WithColumns(x, index, take(src, index.labels, ColumnsOf(x)))

---------------------------------------------------------------------------
(* forecasting_pipeline.run_pipeline                                       *)

PipelineResult(forecast, garch_mean, garch_vol, vecm_forecast) ==
    [arimax_forecast |-> forecast,
     arimax_garch_mean |-> garch_mean,
     arimax_garch_vol |-> garch_vol,
     vecm_forecast |-> vecm_forecast]

\* df[name]
column(df, name) ==
    IF ColPos(df, name) = 0 THEN Raise("KeyError")
    ELSE Series(df.index, df.data[ColPos(df, name)])

\* df.iloc[:, 0]
first_column(df) ==
    IF Len(df.columns) = 0 THEN Raise("IndexError")
    ELSE Series(df.index, df.data[1])

\* df[name] = values, for a Series on the index of df
set_column(df, name, s) ==
    DataFrame(df.index, Append(df.columns, name), Append(df.data, s.values))

\* the slip "at least one column" for "more than one"
wants_vecm_any_column(df) == Len(df.columns) >= 1

\* price_df.shape[1] > 1
wants_vecm(df) == Len(df.columns) > 1

\* Stage 2: degree days of the temperature column (base by default),
\* aligned onto the price index
stage2(weather, price) ==
    LET temp == column(weather, "temperature")
        dd   == IF IsRaise(temp) THEN temp
                ELSE compute_degree_days(temp, DefaultBaseTemperature)
    IN  [degree_days |-> dd,
         exog |-> IF IsRaise(dd) THEN dd ELSE reindex_ffill(dd, price.index)]

\* files of the pipeline: one observation per row, the value a function of
\* the timestamp, rows in any order and possibly repeated
RowsAt(ix, n, x) ==
    [i \in DOMAIN ix |-> [ts |-> ix[i], cells |-> [c \in 1..n |-> NumText(x[ix[i]])]]]

TimeSeqs == UNION {[1..k -> Times] : k \in 0..MaxRows}

TemperatureAt == [t \in Times |-> 11 + 3 * t]

PriceFiles ==
    {[header |-> h, rows |-> RowsAt(ix, Len(h), [t \in Times |-> 50])] :
        h \in {<<>>, <<"da">>, <<"da", "rt">>}, ix \in TimeSeqs}

WeatherFiles ==
    {[header |-> <<"temperature">>, rows |-> RowsAt(ix, 1, TemperatureAt)] :
        ix \in TimeSeqs}

\* no sentiment path, or a sentiment file observed when the weather is
SentimentFiles(weather) ==
    {None,
     [header |-> <<"sentiment">>,
      rows |-> [i \in DOMAIN weather.rows |->
                    [ts |-> weather.rows[i].ts,
                     cells |-> <<NumText(weather.rows[i].ts)>>]]]}

idlePipeline == <<libs, price_path, weather_path, sentiment_path,
                  forecast_steps, series, temperature, base_temperature,
                  texts, scores, classified>>

\* forecasting_pipeline imports arimax, arimax_garch and vecm_garch only:
\* transformers plays no part in a run
InitPipeline ==
    /\ pc = "Stage 1"
    /\ libs \in {l \in LibSets : ~l.transformers}
    /\ price_path \in PriceFiles
    /\ weather_path \in WeatherFiles
    /\ sentiment_path \in SentimentFiles(weather_path)
    /\ forecast_steps = MaxSteps
    /\ price_df = None /\ weather_df = None /\ degree_days = None
    /\ sentiment = None /\ exog = None /\ series = None
    /\ arimax_forecast = None /\ result_garch = None /\ vecm_res = None
    /\ calls = <<>> /\ temperature = None /\ base_temperature = 0
    /\ texts = None /\ scores = <<>> /\ classified = <<>>
    /\ ret = None

\* an exception leaves run_pipeline
Propagate(e) == pc' = "run_pipeline" /\ ret' = e

\* Stage 1: load the price and the weather table
Stage1 ==
    /\ pc = "Stage 1"
    /\ price_df' = load_price_data(price_path)
    /\ weather_df' = load_weather_data(weather_path)
    /\ IF IsRaise(weather_df')
       THEN Propagate(weather_df')
       ELSE pc' = "Stage 2" /\ ret' = ret
    /\ UNCHANGED <<degree_days, sentiment, exog, arimax_forecast,
                   result_garch, vecm_res, calls, idlePipeline>>

\* Stage 2: degree days, aligned onto the price index by forward fill
Stage2 ==
    /\ pc = "Stage 2"
    /\ degree_days' = stage2(weather_df, price_df).degree_days
    /\ exog' = stage2(weather_df, price_df).exog
    /\ IF IsRaise(exog')
       THEN Propagate(exog')
       ELSE pc' = "sentiment" /\ ret' = ret
    /\ UNCHANGED <<price_df, weather_df, sentiment, arimax_forecast,
                   result_garch, vecm_res, calls, idlePipeline>>

\* if sentiment_path is not None: load it, align it, add it as a column
MergeSentiment ==
    /\ pc = "sentiment"
    /\ sentiment_path # None
    /\ sentiment' = load_sentiment_scores(sentiment_path)
    /\ LET aligned == IF IsRaise(sentiment') THEN sentiment'
                      ELSE reindex_ffill(sentiment', price_df.index)
       IN  IF IsRaise(aligned)
           THEN Propagate(aligned) /\ exog' = exog
           ELSE /\ exog' = set_column(exog, "sentiment", aligned)
                /\ pc' = "fit_arimax" /\ ret' = ret
    /\ UNCHANGED <<price_df, weather_df, degree_days, arimax_forecast,
                   result_garch, vecm_res, calls, idlePipeline>>

SkipSentiment ==
    /\ pc = "sentiment"
    /\ sentiment_path = None
    /\ pc' = "fit_arimax"
    /\ UNCHANGED <<price_df, weather_df, degree_days, sentiment, exog,
                   arimax_forecast, result_garch, vecm_res, calls, ret,
                   idlePipeline>>

Invocation(fn, series_, exog_, steps) ==
    [fn |-> fn, series |-> series_, exog |-> exog_, forecast_steps |-> steps]

\* arimax.fit_arimax(price_df.iloc[:, 0], exog=exog, forecast_steps=...)
PipelineFitArimax ==
    /\ pc = "fit_arimax"
    /\ LET y == first_column(price_df)
       IN  IF IsRaise(y)
           THEN Propagate(y) /\ UNCHANGED <<arimax_forecast, calls>>
           ELSE \E outcome \in Outcomes :
                  LET r == fit_arimax(y, exog, forecast_steps, outcome)
                  IN  /\ calls' = calls
                            \o <<Invocation("fit_arimax", y, exog,
                                           forecast_steps)>>
                            \o r.backend
                      /\ IF IsRaise(r.out)
                         THEN Propagate(r.out)
                              /\ arimax_forecast' = arimax_forecast
                         ELSE /\ arimax_forecast' = r.out
                              /\ pc' = "fit_arimax_garch" /\ ret' = ret
    /\ UNCHANGED <<price_df, weather_df, degree_days, sentiment, exog,
                   result_garch, vecm_res, idlePipeline>>

\* arimax_garch.fit_arimax_garch(price_df.iloc[:, 0], exog=exog, ...)
PipelineFitArimaxGarch ==
    /\ pc = "fit_arimax_garch"
    /\ LET y == first_column(price_df)
       IN  IF IsRaise(y)
           THEN Propagate(y) /\ UNCHANGED <<result_garch, calls>>
           ELSE \E outcome \in Outcomes :
                  LET r == fit_arimax_garch(y, exog, forecast_steps, outcome)
                  IN  /\ calls' = calls
                            \o <<Invocation("fit_arimax_garch", y, exog,
                                           forecast_steps)>>
                            \o r.backend
                      /\ IF IsRaise(r.out)
                         THEN Propagate(r.out) /\ result_garch' = result_garch
                         ELSE /\ result_garch' = r.out
                              /\ pc' = "fit_vecm_garch" /\ ret' = ret
    /\ UNCHANGED <<price_df, weather_df, degree_days, sentiment, exog,
                   arimax_forecast, vecm_res, idlePipeline>>

\* if price_df.shape[1] > 1: vecm_garch.fit_vecm_garch(price_df, ...)
PipelineFitVecmGarch ==
    /\ pc = "fit_vecm_garch"
    /\ wants_vecm(price_df)
    /\ \E outcome \in Outcomes :
          LET r == fit_vecm_garch(price_df, forecast_steps, outcome)
          IN  /\ calls' = calls
                    \o <<Invocation("fit_vecm_garch", price_df, None,
                                   forecast_steps)>>
                    \o r.backend
              /\ IF IsRaise(r.out)
                 THEN Propagate(r.out) /\ vecm_res' = vecm_res
                 ELSE vecm_res' = r.out /\ pc' = "return" /\ ret' = ret
    /\ UNCHANGED <<price_df, weather_df, degree_days, sentiment, exog,
                   arimax_forecast, result_garch, idlePipeline>>

PipelineSkipVecmGarch ==
    /\ pc = "fit_vecm_garch"
    /\ ~wants_vecm(price_df)
    /\ pc' = "return"
    /\ UNCHANGED <<price_df, weather_df, degree_days, sentiment, exog,
                   arimax_forecast, result_garch, vecm_res, calls, ret,
                   idlePipeline>>

\* return PipelineResult(...); a dataclass instance is truthy, so
\* "vecm_res.forecast if vecm_res else None" is None only for vecm_res None
PipelineReturn ==
    /\ pc = "return"
    /\ ret' = PipelineResult(arimax_forecast, result_garch.forecast_mean,
                             result_garch.forecast_vol,
                             IF vecm_res # None THEN vecm_res.forecast
                             ELSE None)
    /\ pc' = "run_pipeline"
    /\ UNCHANGED <<price_df, weather_df, degree_days, sentiment, exog,
                   arimax_forecast, result_garch, vecm_res, calls,
                   idlePipeline>>

NextPipeline ==
    \/ Stage1
    \/ Stage2
    \/ MergeSentiment
    \/ SkipSentiment
    \/ PipelineFitArimax
    \/ PipelineFitArimaxGarch
    \/ PipelineFitVecmGarch
    \/ PipelineSkipVecmGarch
    \/ PipelineReturn

SpecPipeline == InitPipeline /\ [][NextPipeline]_vars

(* C7: in a run that returns, the aligned exogenous table has exactly the   *)
(* price index, and its row at price timestamp t is the degree-day (and    *)
(* sentiment) observation with the greatest timestamp <= t, or all         *)
(* missing-value markers when no observation has timestamp <= t.           *)
LastObservations(src, t) ==
    {j \in DOMAIN src :
        /\ src[j] <= t
        /\ \A k \in DOMAIN src : src[k] <= t => src[k] <= src[j]}

CarriedForward(source, cols, aligned) ==
    \A i \in DOMAIN price_df.index.labels :
        LET last == LastObservations(source.index.labels,
                                     price_df.index.labels[i])
        IN  IF last = {}
            THEN \A c \in DOMAIN cols : IsNaN(aligned[c][i])
            ELSE \E j \in last :
                    \A c \in DOMAIN cols : aligned[c][i] = cols[c][j]

C7_AlignmentCarriesLastObservation ==
    (pc = "run_pipeline" /\ ~IsRaise(ret)) =>
        /\ exog.index = price_df.index
        /\ CarriedForward(degree_days, degree_days.data,
                          <<exog.data[1], exog.data[2]>>)
        /\ Len(exog.columns) = 3 =>
              CarriedForward(sentiment, <<sentiment.values>>,
                             <<exog.data[3]>>)

(* C8: aligning the aligned exogenous table onto the price index once more *)
(* does not fail and yields the same table.                                *)
C8_RealignmentIsNoOp ==
    IsDataFrame(exog) => reindex_ffill(exog, price_df.index) = exog

C8_Witness ==
    /\ IsDataFrame(exog)
    /\ Len(exog.columns) = 3
    /\ degree_days.index.labels # price_df.index.labels
    /\ ~IsMonotonicIncreasing(price_df.index.labels)
    /\ \E i \in DOMAIN exog.data[1] : IsNaN(exog.data[1][i])
    /\ \E i \in DOMAIN exog.data[1] : IsFloat(exog.data[1][i])
    /\ reindex_ffill(exog, price_df.index) = exog

(* C9: in a run that returns, fit_arimax and fit_arimax_garch were each    *)
(* invoked exactly once, on the first price column, with the combined      *)
(* exogenous table (holding the sentiment column iff a sentiment path was  *)
(* given) and the requested horizon; fit_vecm_garch was invoked, once and  *)
(* on the whole price table, iff that table has more than one column; and  *)
(* vecm_forecast is absent exactly when it has at most one column.         *)
InvocationsOf(fn) == {i \in DOMAIN calls : calls[i].fn = fn}

C9_OrchestratorDispatch ==
    (pc = "run_pipeline" /\ ~IsRaise(ret)) =>
        /\ Cardinality(InvocationsOf("fit_arimax")) = 1
        /\ Cardinality(InvocationsOf("fit_arimax_garch")) = 1
        /\ \A i \in InvocationsOf("fit_arimax")
                    \cup InvocationsOf("fit_arimax_garch") :
              /\ calls[i].series =
                    Series(price_df.index, load_price_data(price_path).data[1])
              /\ calls[i].exog = exog
              /\ calls[i].forecast_steps = forecast_steps
        /\ \A i \in InvocationsOf("fit_arimax") :
              \A j \in InvocationsOf("fit_arimax_garch") : i < j
        /\ (ColPos(exog, "sentiment") # 0) <=> (sentiment_path # None)
        /\ Cardinality(InvocationsOf("fit_vecm_garch")) =
              IF Len(price_path.header) > 1 THEN 1 ELSE 0
        /\ \A i \in InvocationsOf("fit_vecm_garch") :
              /\ calls[i].series = load_price_data(price_path)
              /\ calls[i].forecast_steps = forecast_steps
        /\ (ret.vecm_forecast = None) <=> (Len(price_path.header) <= 1)

C9_Witness ==
    /\ pc = "run_pipeline"
    /\ ~IsRaise(ret)
    /\ libs.statsmodels /\ libs.arch
    /\ sentiment_path # None
    /\ Len(price_path.header) = 2
    /\ Len(price_path.rows) = MaxRows
    /\ Cardinality(InvocationsOf("fit_vecm_garch")) = 1
    /\ ret.vecm_forecast # None

(* C11: with the backend present and an exogenous table given, the future  *)
(* regressors passed to get_forecast by fit_arimax and fit_arimax_garch    *)
(* are the trailing forecast_steps rows of that table, a table of exactly  *)
(* forecast_steps rows, for every horizon (0 and horizons beyond the       *)
(* table's length included); with no exogenous table none are passed.      *)
(* (Stated for exogenous tables of at least one row.)                      *)
IsTrailingRows(future, table, h) ==
    LET n == Len(table.index.labels)
    IN  /\ IsDataFrame(future)
        /\ Len(future.index.labels) = h
        /\ future.columns = table.columns
        /\ \A k \in 1..h :
              /\ future.index.labels[k] = table.index.labels[n - h + k]
              /\ \A c \in DOMAIN table.columns :
                    future.data[c][k] = table.data[c][n - h + k]

C11_FutureExogIsTrailingRows ==
    pc \in {"fit_arimax", "fit_arimax_garch"} =>
        \A i \in InvocationsOf("get_forecast") :
            /\ calls[i].steps = forecast_steps
            /\ IF exog = None
               THEN calls[i].exog = None
               ELSE Len(exog.index.labels) > 0 =>
                        IsTrailingRows(calls[i].exog, exog, forecast_steps)

====
